---- MODULE Spec2Model ----
(***************************************************************************)
(* A model of the argument facade of sapphire-community/framework           *)
(* (MessageArgs) on top of the lexure ArgumentStream token stream.          *)
(*                                                                         *)
(* Indexes are zero based as in the source: token i of the stream is        *)
(* ordered[i + 1].                                                          *)
(***************************************************************************)
EXTENDS Integers, Sequences, FiniteSets, TLC

\* Longest token stream explored.
MaxLen == 2
\* Deepest checkpoint stack explored.
MaxStack == 2
\* Largest explicit `times` option explored.
MaxTimes == 2

\* The raw positional tokens a stream is made of.
Tokens == {"5", "a"}

VARIABLES
    ordered,    \* parser.results.ordered: the positional tokens (never mutated)
    state,      \* parser.state: [used, position], the cursor
    states,     \* MessageArgs.states: the checkpoint stack
    flags,      \* parser.results.flags: the names of the flags given
    options,    \* parser.results.options: option name -> the values given,
                \* in the order given (<<>> for a name that was not given)
    tasks,      \* the pickResult calls issued and not awaited: for each its
                \* position in the code, its type, the index of the token its
                \* resolver was handed and its result
    request,    \* the invocation a precondition is run on (its transport, the
                \* kind of its channel, the kind of the thread started from
                \* the message) and the precondition's context
    verdict,    \* the precondition and entry point last run and its result
    handlers,   \* the interaction handlers of the store, in iteration order:
                \* for each its type and what its parse and run methods do
    dispatch,   \* the store's run on an interaction: the interaction, the
                \* position in the code, the handler the loop is at, the
                \* handlers whose parse was called, the calls of handlers'
                \* run made, each with its handler and the
                \* data passed, and the promises pushed, each with its handler
                \* and its status
    commands,   \* the command store: the command under the interaction's
                \* commandId and the one under its commandName, each with its
                \* name and what its autocompleteRun does
    listener    \* the core listener's run on an autocomplete interaction:
                \* the position in the code, the calls of autocompleteRun
                \* made, the events emitted on the client and the calls of the
                \* interaction handler store's run made

\* the variables of the argument facade, those of the preconditions, those
\* of the interaction handler store and those of the autocomplete listener
argsVars == <<ordered, state, states, flags, options, tasks>>
preconditionVars == <<request, verdict>>
storeVars == <<handlers, dispatch>>
listenerVars == <<commands, listener>>

vars ==
    <<ordered, state, states, flags, options, tasks, request, verdict, handlers, dispatch,
      commands, listener>>

-----------------------------------------------------------------------------
(* Values and results (@sapphire/result)                                    *)

NoValue == [t |-> "none", s |-> "", n |-> 0]
StrValue(s) == [t |-> "str", s |-> s, n |-> 0]
IntValue(n) == [t |-> "int", s |-> "", n |-> n]

Ok(v) == [kind |-> "ok", value |-> v, output |-> <<>>, list |-> FALSE, identifier |-> "", parameter |-> ""]
OkList(vs) == [kind |-> "ok", value |-> NoValue, output |-> vs, list |-> TRUE, identifier |-> "", parameter |-> ""]
Err(id, p) == [kind |-> "err", value |-> NoValue, output |-> <<>>, list |-> FALSE, identifier |-> id, parameter |-> p]
Raised(id, p) == [kind |-> "raised", value |-> NoValue, output |-> <<>>, list |-> FALSE, identifier |-> id, parameter |-> p]
\* Result.err(null): the stream's "no token available" marker
ErrNull == Err("null", "")
\* a call that returns nothing (save, restore, start)
Void == [kind |-> "void", value |-> NoValue, output |-> <<>>, list |-> FALSE, identifier |-> "", parameter |-> ""]

-----------------------------------------------------------------------------
(* The token stream: ArgumentStream of @sapphire/lexure                     *)

EmptyState == [used |-> {}, position |-> 0]

finished(st) == Cardinality(st.used) = Len(ordered)

\* while (this.state.used.has(this.state.position)) ++this.state.position;
RECURSIVE SkipUsed(_)
SkipUsed(st) ==
    IF st.position \in st.used
    THEN SkipUsed([st EXCEPT !.position = @ + 1])
    ELSE st

\* save(): a copy of the cursor
parserSave(st) == [used |-> st.used, position |-> st.position]

\* restore(state): the cursor becomes the given one
parserRestore(st, saved) == saved

\* reset()
parserReset(st) == parserRestore(st, EmptyState)

\* join(parameters): the raw values separated by single spaces
RECURSIVE join(_)
join(params) ==
    IF params = <<>> THEN ""
    ELSE IF Len(params) = 1 THEN params[1]
    ELSE params[1] \o " " \o join(Tail(params))

\* many(): every unused token from the position on, all marked used
RECURSIVE manyFrom(_, _, _)
manyFrom(st, i, params) ==
    IF i >= Len(ordered) THEN [state |-> st, params |-> params]
    ELSE IF i \in st.used THEN manyFrom(st, i + 1, params)
    ELSE manyFrom([st EXCEPT !.used = @ \cup {i}], i + 1, Append(params, ordered[i + 1]))

many(st) ==
    IF finished(st) THEN [state |-> st, params |-> <<>>]
    ELSE manyFrom(st, st.position, <<>>)

-----------------------------------------------------------------------------
(* The argument type registry and the resolvers                             *)

\* names registered in the 'arguments' store
RegisteredTypes == {"string", "integer"}
\* a name nobody registered
UnknownType == [object |-> FALSE, name |-> "nope"]
\* an IArgument passed at the call site
StrictArgument == [object |-> TRUE, name |-> "strict"]

TypeOptions ==
    {[object |-> FALSE, name |-> n] : n \in RegisteredTypes} \cup {UnknownType, StrictArgument}

NoType == [object |-> FALSE, name |-> ""]
Undefined == "undefined"

\* Number(parameter) for the strings that are integers
IntegerOf == [s \in {"5"} |-> 5]

\* argument.run(parameter, context): 'string' accepts any text, 'integer'
\* returns an error for what is not an integer, and the call-site argument
\* converts without a guard and raises on what is not an integer
run(argument, parameter) ==
    CASE argument = "string" -> Ok(StrValue(parameter))
      [] argument = "integer" ->
            IF parameter \in DOMAIN IntegerOf
            THEN Ok(IntValue(IntegerOf[parameter]))
            ELSE Err("integerError", parameter)
      [] argument = "strict" ->
            IF parameter \in DOMAIN IntegerOf
            THEN Ok(IntValue(IntegerOf[parameter]))
            ELSE Raised("SyntaxError", parameter)

\* Args.resolveArgument
resolveArgument(type) ==
    IF type.object THEN type.name
    ELSE IF type.name \in RegisteredTypes THEN type.name
    ELSE Undefined

\* Args.unavailableArgument
unavailableArgument(type) == Err("argsUnavailable", type.name)

\* Args.missingArguments
missingArguments == Err("argsMissing", "")

\* singleParseAsync(predicate, useAnyways) with
\* predicate = (arg) => argument.run(arg, ...); a predicate that raises leaves
\* the cursor where the skip loop put it
singleParseAsync(st, argument, useAnyways) ==
    IF finished(st) THEN [state |-> st, result |-> ErrNull, calls |-> <<>>]
    ELSE LET s1 == SkipUsed(st)
             parameter == ordered[s1.position + 1]
             result == run(argument, parameter)
         IN  IF result.kind = "ok" \/ (useAnyways /\ result.kind = "err")
             THEN [state |-> [used |-> s1.used \cup {s1.position}, position |-> s1.position + 1],
                   result |-> result, calls |-> <<parameter>>]
             ELSE [state |-> s1, result |-> result, calls |-> <<parameter>>]

-----------------------------------------------------------------------------
(* The argument facade: MessageArgs.  A facade operation maps the facade    *)
(* (cursor and checkpoint stack) to the facade after the call, its result   *)
(* and the parameters the resolver was run on.                              *)

Return(st, stk, result, calls) ==
    [state |-> st, states |-> stk, result |-> result, calls |-> calls]

\* pickResult handing the stream's "no token" marker back unconverted
pickResult_rawNull(a, type) ==
    LET argument == resolveArgument(type) IN
    IF argument = Undefined THEN Return(a.state, a.states, unavailableArgument(type), <<>>)
    ELSE LET r == singleParseAsync(a.state, argument, FALSE) IN
         Return(r.state, a.states, r.result, r.calls)

\* pickResult asking the stream to use the token whatever the resolver says
pickResult_useAnyways(a, type) ==
    LET argument == resolveArgument(type) IN
    IF argument = Undefined THEN Return(a.state, a.states, unavailableArgument(type), <<>>)
    ELSE LET r == singleParseAsync(a.state, argument, TRUE) IN
         IF r.result = ErrNull
         THEN Return(r.state, a.states, missingArguments, r.calls)
         ELSE Return(r.state, a.states, r.result, r.calls)

pickResult(a, type) ==
    LET argument == resolveArgument(type) IN
    IF argument = Undefined THEN Return(a.state, a.states, unavailableArgument(type), <<>>)
    ELSE LET r == singleParseAsync(a.state, argument, FALSE) IN
         IF r.result = ErrNull
         THEN Return(r.state, a.states, missingArguments, r.calls)
         ELSE Return(r.state, a.states, r.result, r.calls)

\* restResult without the rollback on failure
restResult_noRollback(a, type) ==
    LET argument == resolveArgument(type) IN
    IF argument = Undefined THEN Return(a.state, a.states, unavailableArgument(type), <<>>)
    ELSE IF finished(a.state) THEN Return(a.state, a.states, missingArguments, <<>>)
    ELSE LET m == many(a.state)
             data == join(m.params)
             result == run(argument, data)
         IN  Return(m.state, a.states, result, <<data>>)

\* restResult looking at the stream before it resolves the type
restResult_finishedFirst(a, type) ==
    LET argument == resolveArgument(type) IN
    IF finished(a.state) THEN Return(a.state, a.states, missingArguments, <<>>)
    ELSE IF argument = Undefined THEN Return(a.state, a.states, unavailableArgument(type), <<>>)
    ELSE LET saved == parserSave(a.state)
             m == many(a.state)
             data == join(m.params)
             result == run(argument, data)
         IN  IF result.kind = "err"
             THEN Return(parserRestore(m.state, saved), a.states, result, <<data>>)
             ELSE Return(m.state, a.states, result, <<data>>)

\* restResult keeping its checkpoint on the facade's stack: pushed before
\* the tokens are taken, popped on failure
restResult_sharedStack(a, type) ==
    LET argument == resolveArgument(type) IN
    IF argument = Undefined THEN Return(a.state, a.states, unavailableArgument(type), <<>>)
    ELSE IF finished(a.state) THEN Return(a.state, a.states, missingArguments, <<>>)
    ELSE LET saved == parserSave(a.state)
             m == many(a.state)
             data == join(m.params)
             result == run(argument, data)
         IN  IF result.kind = "err"
             THEN Return(parserRestore(m.state, saved), a.states, result, <<data>>)
             ELSE Return(m.state, Append(a.states, saved), result, <<data>>)

restResult(a, type) ==
    LET argument == resolveArgument(type) IN
    IF argument = Undefined THEN Return(a.state, a.states, unavailableArgument(type), <<>>)
    ELSE IF finished(a.state) THEN Return(a.state, a.states, missingArguments, <<>>)
    ELSE LET saved == parserSave(a.state)
             m == many(a.state)
             data == join(m.params)
             result == run(argument, data)
         IN  IF result.kind = "err"
             THEN Return(parserRestore(m.state, saved), a.states, result, <<data>>)
             ELSE Return(m.state, a.states, result, <<data>>)

\* options.times ?? Infinity
NoTimes == -1
TimesOptions == {NoTimes} \cup (0..MaxTimes)

\* the loop running while i <= times
RECURSIVE repeatLoop_offByOne(_, _, _, _, _, _)
repeatLoop_offByOne(st, argument, i, times, output, calls) ==
    IF ~(times = NoTimes \/ i <= times) THEN [state |-> st, result |-> OkList(output), calls |-> calls]
    ELSE LET r == singleParseAsync(st, argument, FALSE) IN
         IF r.result.kind = "raised"
         THEN [state |-> r.state, result |-> r.result, calls |-> calls \o r.calls]
         ELSE IF r.result.kind = "err"
         THEN IF r.result = ErrNull
              THEN [state |-> r.state, result |-> OkList(output), calls |-> calls \o r.calls]
              ELSE IF Len(output) = 0
              THEN [state |-> r.state, result |-> r.result, calls |-> calls \o r.calls]
              ELSE [state |-> r.state, result |-> OkList(output), calls |-> calls \o r.calls]
         ELSE repeatLoop_offByOne(r.state, argument, i + 1, times, Append(output, r.result.value), calls \o r.calls)

\* the loop breaking on every resolver error, the first one included
RECURSIVE repeatLoop_alwaysBreak(_, _, _, _, _, _)
repeatLoop_alwaysBreak(st, argument, i, times, output, calls) ==
    IF ~(times = NoTimes \/ i < times) THEN [state |-> st, result |-> OkList(output), calls |-> calls]
    ELSE LET r == singleParseAsync(st, argument, FALSE) IN
         IF r.result.kind = "raised"
         THEN [state |-> r.state, result |-> r.result, calls |-> calls \o r.calls]
         ELSE IF r.result.kind = "err"
         THEN [state |-> r.state, result |-> OkList(output), calls |-> calls \o r.calls]
         ELSE repeatLoop_alwaysBreak(r.state, argument, i + 1, times, Append(output, r.result.value), calls \o r.calls)

\* the loop asking the stream to use the token whatever the resolver says
RECURSIVE repeatLoop_useAnyways(_, _, _, _, _, _)
repeatLoop_useAnyways(st, argument, i, times, output, calls) ==
    IF ~(times = NoTimes \/ i < times) THEN [state |-> st, result |-> OkList(output), calls |-> calls]
    ELSE LET r == singleParseAsync(st, argument, TRUE) IN
         IF r.result.kind = "raised"
         THEN [state |-> r.state, result |-> r.result, calls |-> calls \o r.calls]
         ELSE IF r.result.kind = "err"
         THEN IF r.result = ErrNull
              THEN [state |-> r.state, result |-> OkList(output), calls |-> calls \o r.calls]
              ELSE IF Len(output) = 0
              THEN [state |-> r.state, result |-> r.result, calls |-> calls \o r.calls]
              ELSE [state |-> r.state, result |-> OkList(output), calls |-> calls \o r.calls]
         ELSE repeatLoop_useAnyways(r.state, argument, i + 1, times, Append(output, r.result.value), calls \o r.calls)

RECURSIVE repeatLoop(_, _, _, _, _, _)
repeatLoop(st, argument, i, times, output, calls) ==
    IF ~(times = NoTimes \/ i < times) THEN [state |-> st, result |-> OkList(output), calls |-> calls]
    ELSE LET r == singleParseAsync(st, argument, FALSE) IN
         IF r.result.kind = "raised"
         THEN [state |-> r.state, result |-> r.result, calls |-> calls \o r.calls]
         ELSE IF r.result.kind = "err"
         THEN IF r.result = ErrNull
              THEN [state |-> r.state, result |-> OkList(output), calls |-> calls \o r.calls]
              ELSE IF Len(output) = 0
              THEN [state |-> r.state, result |-> r.result, calls |-> calls \o r.calls]
              ELSE [state |-> r.state, result |-> OkList(output), calls |-> calls \o r.calls]
         ELSE repeatLoop(r.state, argument, i + 1, times, Append(output, r.result.value), calls \o r.calls)

\* repeatResult entering the loop without looking at parser.finished
repeatResult_noFinishedCheck(a, type, times) ==
    LET argument == resolveArgument(type) IN
    IF argument = Undefined THEN Return(a.state, a.states, unavailableArgument(type), <<>>)
    ELSE LET r == repeatLoop(a.state, argument, 0, times, <<>>, <<>>) IN
         Return(r.state, a.states, r.result, r.calls)

\* repeatResult answering a `times` below 1 with the missing-argument error
repeatResult_zeroTimesMissing(a, type, times) ==
    LET argument == resolveArgument(type) IN
    IF argument = Undefined THEN Return(a.state, a.states, unavailableArgument(type), <<>>)
    ELSE IF finished(a.state) \/ (times # NoTimes /\ times < 1)
    THEN Return(a.state, a.states, missingArguments, <<>>)
    ELSE LET r == repeatLoop(a.state, argument, 0, times, <<>>, <<>>) IN
         Return(r.state, a.states, r.result, r.calls)

repeatResult(a, type, times) ==
    LET argument == resolveArgument(type) IN
    IF argument = Undefined THEN Return(a.state, a.states, unavailableArgument(type), <<>>)
    ELSE IF finished(a.state) THEN Return(a.state, a.states, missingArguments, <<>>)
    ELSE LET r == repeatLoop(a.state, argument, 0, times, <<>>, <<>>) IN
         Return(r.state, a.states, r.result, r.calls)

\* save putting the checkpoint at the bottom of the stack (unshift)
save_unshift(a) == Return(a.state, <<parserSave(a.state)>> \o a.states, Void, <<>>)

save(a) == Return(a.state, Append(a.states, parserSave(a.state)), Void, <<>>)

\* restore taking the oldest checkpoint (shift)
restore_shift(a) ==
    IF Len(a.states) # 0
    THEN Return(parserRestore(a.state, a.states[1]), Tail(a.states), Void, <<>>)
    ELSE Return(a.state, a.states, Void, <<>>)

\* restore falling back to a reset when nothing was saved
restore_resetWhenEmpty(a) ==
    IF Len(a.states) # 0
    THEN Return(parserRestore(a.state, a.states[Len(a.states)]),
                SubSeq(a.states, 1, Len(a.states) - 1), Void, <<>>)
    ELSE Return(parserReset(a.state), a.states, Void, <<>>)

restore(a) ==
    IF Len(a.states) # 0
    THEN Return(parserRestore(a.state, a.states[Len(a.states)]),
                SubSeq(a.states, 1, Len(a.states) - 1), Void, <<>>)
    ELSE Return(a.state, a.states, Void, <<>>)

\* start emptying the checkpoint stack as well
start_clearsStack(a) == Return(parserReset(a.state), <<>>, Void, <<>>)

start(a) == Return(parserReset(a.state), a.states, Void, <<>>)

\* the functions a caller passes to peekResult as options.type
NoFn == [op |-> "none", type |-> NoType, times |-> NoTimes]
PeekFunctions ==
    {[op |-> "pickResult", type |-> t, times |-> NoTimes] : t \in TypeOptions}
    \cup {[op |-> "restResult", type |-> t, times |-> NoTimes] : t \in TypeOptions}
    \cup {[op |-> "repeatResult", type |-> t, times |-> n] : t \in TypeOptions, n \in TimesOptions}

\* await options.type()
callFn(a, fn) ==
    CASE fn.op = "pickResult" -> pickResult(a, fn.type)
      [] fn.op = "restResult" -> restResult(a, fn.type)
      [] fn.op = "repeatResult" -> repeatResult(a, fn.type, fn.times)

\* peekResult restoring only when the extraction failed
peekResult_keepOnSuccess(a, type, fn) ==
    LET s == save(a)
        r == IF fn # NoFn THEN callFn(s, fn) ELSE pickResult(s, type)
        back == restore(r)
    IN  IF r.result.kind = "raised"
        THEN r
        ELSE IF r.result.kind = "ok"
        THEN Return(r.state, back.states, r.result, r.calls)
        ELSE Return(back.state, back.states, r.result, r.calls)

peekResult(a, type, fn) ==
    LET s == save(a)
        r == IF fn # NoFn THEN callFn(s, fn) ELSE pickResult(s, type)
        back == restore(r)
    IN  IF r.result.kind = "raised"
        THEN r
        ELSE Return(back.state, back.states, r.result, r.calls)

\* result.unwrapRaw(): the value of a success, the error of a failure raised
unwrapRaw(r) ==
    IF r.result.kind = "ok"
    THEN Return(r.state, r.states, [r.result EXCEPT !.kind = "returned"], r.calls)
    ELSE IF r.result.kind = "err"
    THEN Return(r.state, r.states, Raised(r.result.identifier, r.result.parameter), r.calls)
    ELSE r

\* pick handing back null for a failure (unwrapOr)
pick_unwrapOrNull(a, type) ==
    LET r == pickResult(a, type) IN
    IF r.result.kind = "err"
    THEN Return(r.state, r.states,
                [kind |-> "returned", value |-> [t |-> "null", s |-> "", n |-> 0], output |-> <<>>,
                 list |-> FALSE, identifier |-> "", parameter |-> ""], r.calls)
    ELSE unwrapRaw(r)

pick(a, type) == unwrapRaw(pickResult(a, type))

rest(a, type) == unwrapRaw(restResult(a, type))

repeat(a, type, times) == unwrapRaw(repeatResult(a, type, times))

peek(a, type, fn) == unwrapRaw(peekResult(a, type, fn))

\* Option.some / Option.none (@sapphire/result)
Some(v) == [kind |-> "some", value |-> v, output |-> <<>>, list |-> FALSE, identifier |-> "", parameter |-> ""]
None == [kind |-> "none", value |-> NoValue, output |-> <<>>, list |-> FALSE, identifier |-> "", parameter |-> ""]
\* the null a non-Option variant returns for an absent value
NullValue == [t |-> "null", s |-> "", n |-> 0]
\* a plain value handed back to the caller
Returned(v) == [kind |-> "returned", value |-> v, output |-> <<>>, list |-> FALSE, identifier |-> "", parameter |-> ""]

\* the ArgsNextCallback functions a caller passes to nextMaybe and next: one
\* that accepts any token, one that rejects what is not an integer and one
\* that converts without a guard and raises on what is not an integer
NoCb == "none"
Callbacks == {"any", "integer", "strict"}
CbOptions == {NoCb} \cup Callbacks

\* cb(value)
callback(cb, parameter) ==
    CASE cb = "any" -> Some(StrValue(parameter))
      [] cb = "integer" ->
            IF parameter \in DOMAIN IntegerOf
            THEN Some(IntValue(IntegerOf[parameter]))
            ELSE None
      [] cb = "strict" ->
            IF parameter \in DOMAIN IntegerOf
            THEN Some(IntValue(IntegerOf[parameter]))
            ELSE Raised("SyntaxError", parameter)

\* single(): the next unused token, marked used
single(st) ==
    IF finished(st) THEN [state |-> st, result |-> None, calls |-> <<>>]
    ELSE LET s1 == SkipUsed(st) IN
         [state |-> [used |-> s1.used \cup {s1.position}, position |-> s1.position + 1],
          result |-> Some(StrValue(ordered[s1.position + 1])), calls |-> <<>>]

\* singleMap(predicate, useAnyways): the token is marked used when the
\* predicate returns a value; a predicate that raises leaves the cursor
\* where the skip loop put it
singleMap(st, cb, useAnyways) ==
    IF finished(st) THEN [state |-> st, result |-> None, calls |-> <<>>]
    ELSE LET s1 == SkipUsed(st)
             parameter == ordered[s1.position + 1]
             result == callback(cb, parameter)
         IN  IF result.kind = "some" \/ (useAnyways /\ result.kind = "none")
             THEN [state |-> [used |-> s1.used \cup {s1.position}, position |-> s1.position + 1],
                   result |-> result, calls |-> <<parameter>>]
             ELSE [state |-> s1, result |-> result, calls |-> <<parameter>>]

\* nextMaybe asking the stream to use the token whatever the callback says
nextMaybe_useAnyways(a, cb) ==
    LET r == IF cb # NoCb THEN singleMap(a.state, cb, TRUE) ELSE single(a.state)
    IN  Return(r.state, a.states, r.result, r.calls)

nextMaybe(a, cb) ==
    LET r == IF cb # NoCb THEN singleMap(a.state, cb, FALSE) ELSE single(a.state)
    IN  Return(r.state, a.states, r.result, r.calls)

\* value.unwrapOr(null)
next(a, cb) ==
    LET r == nextMaybe(a, cb) IN
    IF r.result.kind = "raised" THEN r
    ELSE IF r.result.kind = "some"
    THEN Return(r.state, r.states, Returned(r.result.value), r.calls)
    ELSE Return(r.state, r.states, Returned(NullValue), r.calls)

\* a boolean handed back to the caller
BoolValue(b) == [t |-> "bool", s |-> "", n |-> IF b THEN 1 ELSE 0]
\* Option.some(values) and a plain list of values
SomeList(vs) == [kind |-> "some", value |-> NoValue, output |-> vs, list |-> TRUE, identifier |-> "", parameter |-> ""]
ReturnedList(vs) == [kind |-> "returned", value |-> NoValue, output |-> vs, list |-> TRUE, identifier |-> "", parameter |-> ""]

\* the names a command looks up; "mode" is never given
FlagNames == {"verbose", "force"}
OptionNames == {"tag", "lang", "mode"}
\* ...keys: one or two different names
FlagKeys == {k \in UNION {[1..n -> FlagNames] : n \in 1..2} : Len(k) = 2 => k[1] # k[2]}
OptionKeys == {k \in UNION {[1..n -> OptionNames] : n \in 1..2} : Len(k) = 2 => k[1] # k[2]}

\* flag(...keys): keys.some((key) => flags.has(key))
parserFlag(keys) == \E i \in 1..Len(keys) : keys[i] \in flags

\* options(...keys): the values of every key that was given, key after key
RECURSIVE parserOptionsFrom(_, _, _)
parserOptionsFrom(keys, i, entries) ==
    IF i > Len(keys) THEN entries
    ELSE parserOptionsFrom(keys, i + 1, entries \o options[keys[i]])

parserOptions(keys) ==
    LET entries == parserOptionsFrom(keys, 1, <<>>) IN
    IF Len(entries) # 0 THEN SomeList(entries) ELSE None

\* option(...keys): the last of options(...keys)
parserOption(keys) ==
    LET all == parserOptions(keys) IN
    IF all.kind = "some" THEN Some(StrValue(all.output[Len(all.output)])) ELSE None

getFlags(a, keys) == Return(a.state, a.states, Returned(BoolValue(parserFlag(keys))), <<>>)

getOptionResult(a, keys) == Return(a.state, a.states, parserOption(keys), <<>>)

\* getOption unwrapping the first of the values
getOption_firstValue(a, keys) ==
    LET all == parserOptions(keys) IN
    IF all.kind = "some"
    THEN Return(a.state, a.states, Returned(StrValue(all.output[1])), <<>>)
    ELSE Return(a.state, a.states, Returned(NullValue), <<>>)

getOption(a, keys) ==
    LET r == parserOption(keys) IN
    IF r.kind = "some"
    THEN Return(a.state, a.states, Returned(r.value), <<>>)
    ELSE Return(a.state, a.states, Returned(NullValue), <<>>)

getOptionsResult(a, keys) == Return(a.state, a.states, parserOptions(keys), <<>>)

getOptions(a, keys) ==
    LET r == parserOptions(keys) IN
    IF r.kind = "some"
    THEN Return(a.state, a.states, ReturnedList(r.output), <<>>)
    ELSE Return(a.state, a.states, Returned(NullValue), <<>>)

-----------------------------------------------------------------------------
(* The state machine: a command body calling the facade                     *)

Facade == [state |-> state, states |-> states]

\* the facade after a call that ended as r
Called(r) ==
    /\ state' = r.state
    /\ states' = r.states
    /\ UNCHANGED <<ordered, flags, options, tasks, preconditionVars, storeVars, listenerVars>>

Streams == UNION {[1..n -> Tokens] : n \in 0..MaxLen}

\* no precondition is being run
NoTypes == [shape |-> "undefined", shared |-> {}, messageRun |-> {}, chatInputRun |-> {}, contextMenuRun |-> {}]
NoRequest == [transport |-> "none", channel |-> "none", thread |-> "none", context |-> [types |-> NoTypes]]
PreconditionOk == [kind |-> "ok", identifier |-> "", types |-> NoTypes]
NoVerdict == [precondition |-> "none", entry |-> "none", result |-> PreconditionOk]
NoPrecondition == request = NoRequest /\ verdict = NoVerdict

\* an empty store on which run is not called
NoDispatch ==
    [interaction |-> "none", pc |-> "idle", index |-> 0, parsed |-> <<>>, calls |-> <<>>, promises |-> <<>>]
NoStore == handlers = <<>> /\ dispatch = NoDispatch

\* no command in the store and a listener that is not run
NoCommand == [name |-> "", autocompleteRun |-> "undefined"]
NoListen == [pc |-> "idle", calls |-> <<>>, emitted |-> <<>>, dispatched |-> <<>>]
NoListener == commands = [byId |-> NoCommand, byName |-> NoCommand] /\ listener = NoListen

\* the calls a command body issues without awaiting them
TaskIds == {1, 2}
NoTask == [pc |-> "new", type |-> NoType, index |-> -1, result |-> Void]
NoTasks == [c \in TaskIds |-> NoTask]

\* the flags and options of '--verbose --tag=a --tag=b'
Init ==
    /\ ordered \in Streams
    /\ state = EmptyState
    /\ states = <<>>
    /\ flags = {"verbose"}
    /\ options = [tag |-> <<"a", "b">>, lang |-> <<>>, mode |-> <<>>]
    /\ tasks = NoTasks
    /\ NoPrecondition
    /\ NoStore
    /\ NoListener

PickResult == \E t \in TypeOptions :
    Called(pickResult(Facade, t))

RestResult == \E t \in TypeOptions :
    Called(restResult(Facade, t))

RepeatResult == \E t \in TypeOptions, n \in TimesOptions :
    Called(repeatResult(Facade, t, n))

PeekResult ==
    /\ Len(states) < MaxStack
    /\ \/ \E t \in TypeOptions : Called(peekResult(Facade, t, NoFn))
       \/ \E f \in PeekFunctions : Called(peekResult(Facade, NoType, f))

Save ==
    /\ Len(states) < MaxStack
    /\ Called(save(Facade))

Restore == Called(restore(Facade))

Start == Called(start(Facade))

Pick == \E t \in TypeOptions :
    Called(pick(Facade, t))

Rest == \E t \in TypeOptions :
    Called(rest(Facade, t))

Repeat == \E t \in TypeOptions, n \in TimesOptions :
    Called(repeat(Facade, t, n))

Peek ==
    /\ Len(states) < MaxStack
    /\ \/ \E t \in TypeOptions : Called(peek(Facade, t, NoFn))
       \/ \E f \in PeekFunctions : Called(peek(Facade, NoType, f))

NextMaybe == \E cb \in CbOptions :
    Called(nextMaybe(Facade, cb))

NextValue == \E cb \in CbOptions :
    Called(next(Facade, cb))

GetFlags == \E keys \in FlagKeys :
    Called(getFlags(Facade, keys))

GetOption == \E keys \in OptionKeys :
    \/ Called(getOptionResult(Facade, keys))
    \/ Called(getOption(Facade, keys))

GetOptions == \E keys \in OptionKeys :
    \/ Called(getOptionsResult(Facade, keys))
    \/ Called(getOptions(Facade, keys))

Next ==
    \/ PickResult
    \/ RestResult
    \/ RepeatResult
    \/ PeekResult
    \/ Save
    \/ Restore
    \/ Start
    \/ Pick
    \/ Rest
    \/ Repeat
    \/ Peek
    \/ NextMaybe
    \/ NextValue
    \/ GetFlags
    \/ GetOption
    \/ GetOptions

Spec == Init /\ [][Next]_vars

\* The facade over every combination of flags and options, on the streams
\* "5", "5 a", "5 a a", ...
LookupStreams == {s \in Streams : \A i \in DOMAIN s : s[i] = (IF i = 1 THEN "5" ELSE "a")}
FlagSets == SUBSET FlagNames
OptionMaps ==
    {[tag |-> <<>>, lang |-> <<>>, mode |-> <<>>],
     [tag |-> <<"a", "b">>, lang |-> <<>>, mode |-> <<>>],
     [tag |-> <<"a", "b">>, lang |-> <<"c">>, mode |-> <<>>],
     [tag |-> <<"b">>, lang |-> <<"c", "a">>, mode |-> <<>>]}

InitLookups ==
    /\ ordered \in LookupStreams
    /\ state = EmptyState
    /\ states = <<>>
    /\ flags \in FlagSets
    /\ options \in OptionMaps
    /\ tasks = NoTasks
    /\ NoPrecondition
    /\ NoStore
    /\ NoListener

SpecLookups == InitLookups /\ [][Next]_vars

-----------------------------------------------------------------------------
(* pickResult calls issued without awaiting: each call runs up to its       *)
(* await of the resolver's promise when it is issued, and from there to     *)
(* its return when that promise has settled.                                *)

\* pickResult up to the await: the type is resolved and, on a stream that is
\* not finished, the skip loop moves the position and the resolver is
\* handed the token at it
IssuePickResult(c) == \E t \in TypeOptions :
    /\ tasks[c].pc = "new"
    /\ LET argument == resolveArgument(t) IN
       IF argument = Undefined
       THEN /\ tasks' = [tasks EXCEPT ![c] = [pc |-> "done", type |-> t, index |-> -1,
                                              result |-> unavailableArgument(t)]]
            /\ UNCHANGED state
       ELSE IF finished(state)
       THEN /\ tasks' = [tasks EXCEPT ![c] = [pc |-> "await", type |-> t, index |-> -1,
                                              result |-> ErrNull]]
            /\ UNCHANGED state
       ELSE LET s1 == SkipUsed(state) IN
            /\ state' = s1
            /\ tasks' = [tasks EXCEPT ![c] = [pc |-> "await", type |-> t, index |-> s1.position,
                                              result |-> run(argument, ordered[s1.position + 1])]]
    /\ UNCHANGED <<ordered, states, flags, options, preconditionVars, storeVars, listenerVars>>

\* pickResult from the await on: the token at the position the cursor has
\* now is marked used when the resolver returned a success
SettlePickResult(c) ==
    /\ tasks[c].pc = "await"
    /\ LET result == tasks[c].result IN
       /\ state' = IF result.kind = "ok"
                   THEN [used |-> state.used \cup {state.position}, position |-> state.position + 1]
                   ELSE state
       /\ tasks' = [tasks EXCEPT ![c].pc = "done",
                                 ![c].result = IF result = ErrNull THEN missingArguments ELSE result]
    /\ UNCHANGED <<ordered, states, flags, options, preconditionVars, storeVars, listenerVars>>

NextAsync == \E c \in TaskIds : IssuePickResult(c) \/ SettlePickResult(c)

SpecAsync == Init /\ [][NextAsync]_vars

-----------------------------------------------------------------------------
(* The run-context preconditions: RunIn, GuildNewsThreadOnly, GuildNewsOnly *)

\* ChannelType (discord.js)
ChannelTypes == {"GuildText", "DM", "GuildNews", "GuildNewsThread", "GuildPublicThread"}
\* message.thread when the message started no thread
NoThread == "none"

\* this.ok() and this.error({ identifier, context: { types } })
PreconditionError(identifier, types) == [kind |-> "err", identifier |-> identifier, types |-> types]

\* context.types: absent, one list for every transport, or a list for each
Lists == {{}, {"GuildText"}, {"DM"}, {"GuildText", "GuildNews"}}
ArrayTypes(l) == [shape |-> "array", shared |-> l, messageRun |-> {}, chatInputRun |-> {}, contextMenuRun |-> {}]
RecordTypes(m, c, x) == [shape |-> "record", shared |-> {}, messageRun |-> m, chatInputRun |-> c, contextMenuRun |-> x]
TypesOptions ==
    {NoTypes} \cup {ArrayTypes(l) : l \in Lists}
    \cup {RecordTypes(m, c, x) : m \in Lists, c \in Lists, x \in Lists}

\* Array.isArray(types)
typesIsArray(types) == types.shape = "array"

\* fetchChannelFromInteraction(interaction): the channel the interaction
\* occurred in
fetchChannelFromInteraction(interaction) == [type |-> interaction.channel]

makeSharedError(context) == PreconditionError("preconditionRunIn", context.types)

\* messageRun without the pass-through for an absent context.types
RunIn_messageRun_noPassThrough(message, context) ==
    LET channelType == message.channel IN
    IF typesIsArray(context.types)
    THEN IF channelType \in context.types.shared THEN PreconditionOk ELSE makeSharedError(context)
    ELSE IF channelType \in context.types.messageRun THEN PreconditionOk ELSE makeSharedError(context)

RunIn_messageRun(message, context) ==
    IF context.types = NoTypes THEN PreconditionOk
    ELSE LET channelType == message.channel IN
         IF typesIsArray(context.types)
         THEN IF channelType \in context.types.shared THEN PreconditionOk ELSE makeSharedError(context)
         ELSE IF channelType \in context.types.messageRun THEN PreconditionOk ELSE makeSharedError(context)

\* chatInputRun testing the list of messageRun
RunIn_chatInputRun_messageList(interaction, context) ==
    IF context.types = NoTypes THEN PreconditionOk
    ELSE LET channelType == fetchChannelFromInteraction(interaction).type IN
         IF typesIsArray(context.types)
         THEN IF channelType \in context.types.shared THEN PreconditionOk ELSE makeSharedError(context)
         ELSE IF channelType \in context.types.messageRun THEN PreconditionOk ELSE makeSharedError(context)

RunIn_chatInputRun(interaction, context) ==
    IF context.types = NoTypes THEN PreconditionOk
    ELSE LET channelType == fetchChannelFromInteraction(interaction).type IN
         IF typesIsArray(context.types)
         THEN IF channelType \in context.types.shared THEN PreconditionOk ELSE makeSharedError(context)
         ELSE IF channelType \in context.types.chatInputRun THEN PreconditionOk ELSE makeSharedError(context)

\* contextMenuRun passing an empty list through like an absent one
RunIn_contextMenuRun_emptyIsAbsent(interaction, context) ==
    IF context.types = NoTypes THEN PreconditionOk
    ELSE LET channelType == fetchChannelFromInteraction(interaction).type IN
         IF typesIsArray(context.types)
         THEN IF context.types.shared = {} \/ channelType \in context.types.shared
              THEN PreconditionOk ELSE makeSharedError(context)
         ELSE IF context.types.contextMenuRun = {} \/ channelType \in context.types.contextMenuRun
              THEN PreconditionOk ELSE makeSharedError(context)

RunIn_contextMenuRun(interaction, context) ==
    IF context.types = NoTypes THEN PreconditionOk
    ELSE LET channelType == fetchChannelFromInteraction(interaction).type IN
         IF typesIsArray(context.types)
         THEN IF channelType \in context.types.shared THEN PreconditionOk ELSE makeSharedError(context)
         ELSE IF channelType \in context.types.contextMenuRun THEN PreconditionOk ELSE makeSharedError(context)

\* GuildNewsThreadOnly
GuildNewsThreadOnly_messageRun(message) ==
    IF message.thread = "GuildNewsThread"
    THEN PreconditionOk
    ELSE PreconditionError("preconditionGuildNewsThreadOnly", NoTypes)

GuildNewsThreadOnly_chatInputRun(interaction) ==
    LET channel == fetchChannelFromInteraction(interaction) IN
    IF channel.type = "GuildNewsThread"
    THEN PreconditionOk
    ELSE PreconditionError("preconditionGuildNewsThreadOnly", NoTypes)

GuildNewsThreadOnly_contextMenuRun(interaction) ==
    LET channel == fetchChannelFromInteraction(interaction) IN
    IF channel.type = "GuildNewsThread"
    THEN PreconditionOk
    ELSE PreconditionError("preconditionGuildNewsThreadOnly", NoTypes)

\* GuildNewsOnly
allowedTypes == {"GuildNews", "GuildNewsThread"}

GuildNewsOnly_messageRun(message) ==
    IF message.channel \in allowedTypes
    THEN PreconditionOk
    ELSE PreconditionError("preconditionGuildNewsOnly", NoTypes)

GuildNewsOnly_chatInputRun(interaction) ==
    LET channel == fetchChannelFromInteraction(interaction) IN
    IF channel.type \in allowedTypes
    THEN PreconditionOk
    ELSE PreconditionError("preconditionGuildNewsOnly", NoTypes)

GuildNewsOnly_contextMenuRun(interaction) ==
    LET channel == fetchChannelFromInteraction(interaction) IN
    IF channel.type \in allowedTypes
    THEN PreconditionOk
    ELSE PreconditionError("preconditionGuildNewsOnly", NoTypes)

\* The invocations: a message in a channel of any kind, which may have
\* started a thread when the channel is a text or an announcement channel
\* (an announcement channel's threads are announcement threads), or a chat
\* input or context menu interaction in a channel of any kind
Transports == {"messageRun", "chatInputRun", "contextMenuRun"}
ThreadOf == [k \in {"GuildText", "GuildNews"} |->
                IF k = "GuildNews" THEN "GuildNewsThread" ELSE "GuildPublicThread"]
Requests ==
    {[transport |-> tr, channel |-> k, thread |-> th, context |-> [types |-> ty]] :
        tr \in Transports, k \in ChannelTypes, th \in {NoThread, "GuildNewsThread", "GuildPublicThread"},
        ty \in TypesOptions}

InitPreconditions ==
    /\ ordered = <<>>
    /\ state = EmptyState
    /\ states = <<>>
    /\ flags = {}
    /\ options = [tag |-> <<>>, lang |-> <<>>, mode |-> <<>>]
    /\ tasks = NoTasks
    /\ request \in {r \in Requests :
                      r.thread # NoThread
                        => /\ r.transport = "messageRun"
                           /\ r.channel \in DOMAIN ThreadOf
                           /\ r.thread = ThreadOf[r.channel]}
    /\ verdict = NoVerdict
    /\ NoStore
    /\ NoListener

\* the framework running the entry point of the invocation's transport
Ran(precondition, entry, result) ==
    /\ request.transport = entry
    /\ verdict' = [precondition |-> precondition, entry |-> entry, result |-> result]
    /\ UNCHANGED <<argsVars, request, storeVars, listenerVars>>

RunInMessageRun == Ran("RunIn", "messageRun", RunIn_messageRun(request, request.context))

RunInChatInputRun == Ran("RunIn", "chatInputRun", RunIn_chatInputRun(request, request.context))

RunInContextMenuRun == Ran("RunIn", "contextMenuRun", RunIn_contextMenuRun(request, request.context))

GuildNewsThreadOnlyMessageRun ==
    Ran("GuildNewsThreadOnly", "messageRun", GuildNewsThreadOnly_messageRun(request))

GuildNewsThreadOnlyChatInputRun ==
    Ran("GuildNewsThreadOnly", "chatInputRun", GuildNewsThreadOnly_chatInputRun(request))

GuildNewsThreadOnlyContextMenuRun ==
    Ran("GuildNewsThreadOnly", "contextMenuRun", GuildNewsThreadOnly_contextMenuRun(request))

GuildNewsOnlyMessageRun == Ran("GuildNewsOnly", "messageRun", GuildNewsOnly_messageRun(request))

GuildNewsOnlyChatInputRun == Ran("GuildNewsOnly", "chatInputRun", GuildNewsOnly_chatInputRun(request))

GuildNewsOnlyContextMenuRun ==
    Ran("GuildNewsOnly", "contextMenuRun", GuildNewsOnly_contextMenuRun(request))

NextPreconditions ==
    \/ RunInMessageRun
    \/ RunInChatInputRun
    \/ RunInContextMenuRun
    \/ GuildNewsThreadOnlyMessageRun
    \/ GuildNewsThreadOnlyChatInputRun
    \/ GuildNewsThreadOnlyContextMenuRun
    \/ GuildNewsOnlyMessageRun
    \/ GuildNewsOnlyChatInputRun
    \/ GuildNewsOnlyContextMenuRun

SpecPreconditions == InitPreconditions /\ [][NextPreconditions]_vars

-----------------------------------------------------------------------------
(* The interaction handler store: run hands an interaction to every        *)
(* handler whose type's filter accepts it and whose parse returns a Some.  *)

\* the most handlers in the store
MaxHandlers == 2

InteractionHandlerTypes == {"BUTTON", "SELECT_MENU", "MESSAGE_COMPONENT"}

\* the interactions explored: a button press, a select menu choice and an
\* interaction that is no message component
Interactions == {"button", "selectMenu", "command"}

\* InteractionHandlerFilters.get(type)(interaction)
InteractionHandlerFilters(type, interaction) ==
    CASE type = "BUTTON" -> interaction = "button"
      [] type = "SELECT_MENU" -> interaction = "selectMenu"
      [] type = "MESSAGE_COMPONENT" -> interaction \in {"button", "selectMenu"}

\* a type that has no entry in InteractionHandlerFilters
UnregisteredType == "UNREGISTERED"

\* filter?.(interaction) for the filter of the handler's type, undefined
\* when the type has no entry
filterAccepts(handler, interaction) ==
    /\ handler.interactionHandlerType \in InteractionHandlerTypes
    /\ InteractionHandlerFilters(handler.interactionHandlerType, interaction)

\* the Maybe a parse returns, and the mark of a parse that threw or rejected
some(data) == [kind |-> "some", value |-> data]
none == [kind |-> "none", value |-> Undefined]
ParseError == [kind |-> "error", value |-> Undefined]

\* what a handler's parse does: it is not overridden, or it returns a Some
\* or a None (directly or as the value of a promise), throws, or returns a
\* promise that rejects
Parses == {"default", "some", "none", "throws", "rejects"}

\* what a handler's run does: it returns a value, returns a promise that
\* resolves, throws when invoked, or returns a promise that rejects
Runs == {"returns", "resolves", "throws", "rejects"}

\* a handler: its type, what its parse and its run do, and the data its
\* parse puts in the Some it returns
InteractionHandler(type, p, data, r) ==
    [interactionHandlerType |-> type, parse |-> p, data |-> data, run |-> r]

\* the handlers explored: button handlers with every run behind a parse that
\* claims and with every parse, handlers of the other two types, whose
\* parse returns other data, and a handler of a type without filter
HandlerOptions ==
    {InteractionHandler("BUTTON", "some", "x", r) : r \in Runs}
      \cup {InteractionHandler("BUTTON", q, "x", "resolves") : q \in Parses}
      \cup {InteractionHandler("SELECT_MENU", "some", "y", "resolves"),
            InteractionHandler("MESSAGE_COMPONENT", "some", "y", "rejects"),
            InteractionHandler(UnregisteredType, "default", "x", "resolves")}

Stores == UNION {[1..n -> HandlerOptions] : n \in 0..MaxHandlers}

\* InteractionHandler.parse when it is not overridden
defaultParse(interaction) == some(Undefined)

\* the result of `await handler.parse(interaction)` inside the try block,
\* ParseError when the block is left through its catch
parse(handler, interaction) ==
    CASE handler.parse = "default" -> defaultParse(interaction)
      [] handler.parse = "some" -> some(handler.data)
      [] handler.parse = "none" -> none
      [] handler.parse \in {"throws", "rejects"} -> ParseError

isSome(result) == result.kind = "some"

\* isSome(await handler.parse(interaction)), and FALSE when the try block
\* is left through its catch
parsedSome(handler) == isSome(parse(handler, dispatch.interaction))

\* RunCall passing no data
RunCall_noData(i, result) == [handler |-> i, parsedData |-> Undefined]

\* the call handler.run(interaction, result.value)
RunCall(i, result) == [handler |-> i, parsedData |-> result.value]

\* the promise pushed for a handler's run: a value that is no promise counts
\* as fulfilled for Promise.allSettled
Promise(i) ==
    [handler |-> i, status |-> IF handlers[i].run = "returns" THEN "fulfilled" ELSE "pending"]

InitStore ==
    /\ ordered = <<>>
    /\ state = EmptyState
    /\ states = <<>>
    /\ flags = {}
    /\ options = [tag |-> <<>>, lang |-> <<>>, mode |-> <<>>]
    /\ tasks = NoTasks
    /\ NoPrecondition
    /\ NoListener
    /\ handlers \in Stores
    /\ dispatch \in {[NoDispatch EXCEPT !.interaction = i] : i \in Interactions}

\* run is called: nothing to do for an empty store
StoreRun ==
    /\ dispatch.pc = "idle"
    /\ dispatch' = IF Len(handlers) = 0
                     THEN [dispatch EXCEPT !.pc = "returned"]
                     ELSE [dispatch EXCEPT !.pc = "loop", !.index = 1]
    /\ UNCHANGED <<argsVars, preconditionVars, handlers, listenerVars>>

\* the loop takes the next handler and asks the filter of its type; a
\* handler the filter accepts has its parse called and awaited
Filter ==
    /\ dispatch.pc = "loop"
    /\ dispatch.index <= Len(handlers)
    /\ dispatch' = IF filterAccepts(handlers[dispatch.index], dispatch.interaction)
                     THEN [dispatch EXCEPT !.pc = "parse", !.parsed = Append(@, dispatch.index)]
                     ELSE [dispatch EXCEPT !.index = @ + 1]
    /\ UNCHANGED <<argsVars, preconditionVars, handlers, listenerVars>>

\* Parse with the call of run left out
Parse_skipRun ==
    /\ dispatch.pc = "parse"
    /\ dispatch' = [dispatch EXCEPT !.pc = "loop", !.index = @ + 1]
    /\ UNCHANGED <<argsVars, preconditionVars, handlers, listenerVars>>

\* the parse has settled: a parse that threw or rejected and a None skip the
\* handler; on a Some the handler's run is called and what it returns is
\* pushed, and an exception it throws leaves the loop and rejects the
\* promise run returned to its caller
Parse ==
    /\ dispatch.pc = "parse"
    /\ \E result \in {parse(handlers[dispatch.index], dispatch.interaction)} :
         dispatch' =
           IF ~isSome(result)
             THEN [dispatch EXCEPT !.pc = "loop", !.index = @ + 1]
             ELSE IF handlers[dispatch.index].run = "throws"
                    THEN [dispatch EXCEPT !.pc = "rejected",
                                          !.calls = Append(@, RunCall(dispatch.index, result))]
                    ELSE [dispatch EXCEPT !.pc = "loop",
                                          !.index = @ + 1,
                                          !.calls = Append(@, RunCall(dispatch.index, result)),
                                          !.promises = Append(@, Promise(dispatch.index))]
    /\ UNCHANGED <<argsVars, preconditionVars, handlers, listenerVars>>

\* after the last handler: return when nothing was pushed, else await
\* Promise.allSettled
LoopEnd ==
    /\ dispatch.pc = "loop"
    /\ dispatch.index > Len(handlers)
    /\ dispatch' = [dispatch EXCEPT !.pc = IF Len(dispatch.promises) = 0
                                             THEN "returned" ELSE "allSettled"]
    /\ UNCHANGED <<argsVars, preconditionVars, handlers, listenerVars>>

\* a promise returned by a handler's run settles, at any time after the call
Settle(p) ==
    /\ p \in DOMAIN dispatch.promises
    /\ dispatch.promises[p].status = "pending"
    /\ dispatch' = [dispatch EXCEPT !.promises[p].status =
                        IF handlers[dispatch.promises[p].handler].run = "rejects"
                          THEN "rejected" ELSE "fulfilled"]
    /\ UNCHANGED <<argsVars, preconditionVars, handlers, listenerVars>>

\* every promise pushed has settled: the results are looked at and run
\* returns
AllSettled ==
    /\ dispatch.pc = "allSettled"
    /\ \A p \in DOMAIN dispatch.promises : dispatch.promises[p].status # "pending"
    /\ dispatch' = [dispatch EXCEPT !.pc = "returned"]
    /\ UNCHANGED <<argsVars, preconditionVars, handlers, listenerVars>>

NextStore ==
    \/ StoreRun
    \/ Filter
    \/ Parse
    \/ LoopEnd
    \/ \E p \in 1..MaxHandlers : Settle(p)
    \/ AllSettled

SpecStore == InitStore /\ [][NextStore]_vars

\* the store's run goes on after each await, and every promise a handler's
\* run returned settles
FairStore ==
    /\ WF_vars(StoreRun \/ Filter \/ Parse \/ LoopEnd \/ AllSettled)
    /\ \A p \in 1..MaxHandlers : WF_vars(Settle(p))

SpecStoreFair == InitStore /\ [][NextStore]_vars /\ FairStore

-----------------------------------------------------------------------------
(* The core listener of possible autocomplete interactions: the command's  *)
(* autocompleteRun when it has one, the interaction handlers otherwise.    *)

CommandNames == {"ping", "pong"}

\* what a command's autocompleteRun does: the command has none, or it
\* returns a promise that resolves or one that rejects, or it throws
AutocompleteRuns == {"undefined", "resolves", "rejects", "throws"}

CommandOptions ==
    {NoCommand} \cup {[name |-> n, autocompleteRun |-> r] : n \in CommandNames, r \in AutocompleteRuns}

\* the interaction the listener is run on
AutocompleteInteraction == "autocomplete"

\* commandStore.get(interaction.commandId) ?? commandStore.get(interaction.commandName)
resolveCommand ==
    IF commands.byId # NoCommand THEN commands.byId ELSE commands.byName

\* command?.autocompleteRun
hasAutocompleteRun(command) == command # NoCommand /\ command.autocompleteRun # "undefined"

\* client.emit(event, ...) with the command in the payload
Emitted(event, command) == [event |-> event, command |-> command]

InitListener ==
    /\ ordered = <<>>
    /\ state = EmptyState
    /\ states = <<>>
    /\ flags = {}
    /\ options = [tag |-> <<>>, lang |-> <<>>, mode |-> <<>>]
    /\ tasks = NoTasks
    /\ NoPrecondition
    /\ NoStore
    /\ commands \in [byId : CommandOptions, byName : CommandOptions]
    /\ listener = NoListen

\* run is called: the command is looked up and its autocompleteRun is
\* called, or, for want of one, the interaction handler store's run
ListenerRun ==
    /\ listener.pc = "idle"
    /\ \E command \in {resolveCommand} :
          listener' =
            IF hasAutocompleteRun(command)
              THEN [listener EXCEPT !.pc = "autocompleteRun", !.calls = Append(@, command)]
              ELSE [listener EXCEPT !.pc = "handlers",
                                    !.dispatched = Append(@, AutocompleteInteraction)]
    /\ UNCHANGED <<argsVars, preconditionVars, storeVars, commands>>

\* the settling going on to the interaction handlers instead of returning
AutocompleteRunSettled_fallsThrough ==
    /\ listener.pc = "autocompleteRun"
    /\ \E command \in {resolveCommand} :
          listener' =
            [listener EXCEPT
               !.pc = "handlers",
               !.emitted = Append(@, Emitted(IF command.autocompleteRun = "resolves"
                                               THEN "CommandAutocompleteInteractionSuccess"
                                               ELSE "CommandAutocompleteInteractionError",
                                             command)),
               !.dispatched = Append(@, AutocompleteInteraction)]
    /\ UNCHANGED <<argsVars, preconditionVars, storeVars, commands>>

\* the autocompleteRun has settled inside the try block: the success event
\* is emitted when it resolved, the error event from the catch when it
\* threw or rejected, and run returns
AutocompleteRunSettled ==
    /\ listener.pc = "autocompleteRun"
    /\ \E command \in {resolveCommand} :
          listener' =
            [listener EXCEPT
               !.pc = "returned",
               !.emitted = Append(@, Emitted(IF command.autocompleteRun = "resolves"
                                               THEN "CommandAutocompleteInteractionSuccess"
                                               ELSE "CommandAutocompleteInteractionError",
                                             command))]
    /\ UNCHANGED <<argsVars, preconditionVars, storeVars, commands>>

\* the interaction handler store's run has returned: no filter of the store
\* accepts an autocomplete interaction, so no handler was run
HandlersSettled ==
    /\ listener.pc = "handlers"
    /\ listener' = [listener EXCEPT !.pc = "returned"]
    /\ UNCHANGED <<argsVars, preconditionVars, storeVars, commands>>

NextListener ==
    \/ ListenerRun
    \/ AutocompleteRunSettled
    \/ HandlersSettled

SpecListener == InitListener /\ [][NextListener]_vars

-----------------------------------------------------------------------------
(* Properties of the facade in every state a command body can bring it to,  *)
(* for every argument the operation can be called with there.               *)

\* the number of positional tokens not yet consumed
Remaining(st) == Len(ordered) - Cardinality(st.used)

\* the index of the first positional token not yet consumed
FirstRemaining(st) ==
    CHOOSE i \in 0..(Len(ordered) - 1) :
        i \notin st.used /\ \A j \in 0..(i - 1) : j \in st.used

\* what the next pickResult would return and hand to the resolver
NextPick(a, t) == LET r == pickResult(a, t) IN <<r.result, r.calls>>

IntegerType == [object |-> FALSE, name |-> "integer"]
StringType == [object |-> FALSE, name |-> "string"]

\* C1: a peekResult that returns, with the default pick-style extraction or
\* with a caller-supplied pickResult, restResult or repeatResult, leaves the
\* cursor position and `finished` as they were before the call, whether the
\* extraction succeeded or failed.
C1_PeekNeverAdvances ==
    \A r \in {peekResult(Facade, t, NoFn) : t \in TypeOptions}
               \cup {peekResult(Facade, NoType, f) : f \in PeekFunctions} :
        r.result.kind # "raised"
          => /\ r.state = state
             /\ r.state.position = state.position
             /\ finished(r.state) = finished(state)

\* in the middle of the stream, a peek whose nested restResult succeeds on
\* the last token and a default peek the resolver refuses: the token is
\* still to be consumed after either
C1_Witness ==
    /\ state.position = 1
    /\ Remaining(state) = 1
    /\ \E r \in {peekResult(Facade, NoType, [op |-> "restResult", type |-> StringType, times |-> NoTimes])} :
          /\ r.result.kind = "ok"
          /\ r.calls = <<ordered[2]>>
          /\ Remaining(r.state) = 1
    /\ \E r \in {peekResult(Facade, IntegerType, NoFn)} :
          /\ r.result.kind = "err"
          /\ r.calls = <<ordered[2]>>
          /\ Remaining(r.state) = 1

\* C2: save() leaves the cursor alone and a restore() that immediately
\* follows it leaves the cursor, `finished`, the result of the next
\* pickResult and the checkpoint stack as they were before the save.
C2_SaveRestoreRoundTrip ==
    \A s \in {save(Facade)} :
        \A r \in {restore(s)} :
            /\ s.state = state
            /\ r.state = state
            /\ r.states = states
            /\ finished(r.state) = finished(state)
            /\ \A t \in TypeOptions : NextPick(r, t) = NextPick(Facade, t)

\* a save and restore in the middle of the stream, with an older checkpoint
\* of another position on the stack: the save puts the cursor above it and
\* the restore takes that one, not the older
C2_Witness ==
    /\ Len(states) = 1
    /\ states[1] # state
    /\ state.position > 0
    /\ ~finished(state)
    /\ save(Facade).states = <<states[1], state>>
    /\ restore(save(Facade)).states = <<states[1]>>

\* C3: a restResult whose resolver returns an error on the joined remaining
\* tokens returns an error and leaves the cursor at its position before the
\* call: `finished` is unchanged and the next pickResult sees the same token.
C3_RestFailureRestores ==
    \A t \in TypeOptions :
        \A r \in {restResult(Facade, t)} :
            (Len(r.calls) = 1 /\ run(resolveArgument(t), r.calls[1]).kind = "err")
              => /\ r.result.kind = "err"
                 /\ r.state = state
                 /\ finished(r.state) = finished(state)
                 /\ \A u \in TypeOptions : NextPick(r, u) = NextPick(Facade, u)

\* a rest of two tokens, joined with a space, that the resolver refuses:
\* both are still to be consumed
C3_Witness ==
    /\ Remaining(state) = 2
    /\ \E r \in {restResult(Facade, IntegerType)} :
          /\ r.calls = <<"5 a">>
          /\ r.result = Err("integerError", "5 a")
          /\ Remaining(r.state) = 2

\* C4: repeatResult with times = N never returns more than N values, and
\* when the resolver returns an error after at least one success the call
\* is a success carrying the values of the earlier tokens, fewer than N.
C4_RepeatBounded ==
    \A t \in TypeOptions, n \in TimesOptions :
        \A r \in {repeatResult(Facade, t, n)} :
            \A k \in {Len(r.calls)} :
                /\ (r.result.kind = "ok" /\ n # NoTimes) => Len(r.result.output) <= n
                /\ (k >= 2 /\ run(resolveArgument(t), r.calls[k]).kind = "err")
                     => /\ r.result.kind = "ok"
                        /\ r.result.list
                        /\ r.result.output
                             = [i \in 1..(k - 1) |-> run(resolveArgument(t), r.calls[i]).value]
                        /\ n # NoTimes => Len(r.result.output) < n

\* a repeat of up to two integers on "5 a": it ran the resolver twice, stopped
\* on the refusal of the second token and returned the first one's value
C4_Witness ==
    /\ Remaining(state) = 2
    /\ \E r \in {repeatResult(Facade, IntegerType, 2)} :
          /\ r.calls = <<"5", "a">>
          /\ r.result = OkList(<<IntValue(5)>>)
          /\ Remaining(r.state) = 1

\* C5: a repeatResult whose resolver returns an error on the very first
\* attempt returns that error, not a success, and leaves the cursor where
\* it was.
C5_RepeatFirstFailure ==
    \A t \in TypeOptions, n \in TimesOptions :
        \A r \in {repeatResult(Facade, t, n)} :
            (Len(r.calls) = 1 /\ run(resolveArgument(t), r.calls[1]).kind = "err")
              => /\ r.result = run(resolveArgument(t), r.calls[1])
                 /\ r.result.kind = "err"
                 /\ r.state = state

\* a repeat refused on its first token after an earlier token was consumed
C5_Witness ==
    /\ state.position = 1
    /\ Remaining(state) = 1
    /\ \E r \in {repeatResult(Facade, IntegerType, NoTimes)} :
          /\ r.calls = <<"a">>
          /\ r.result = Err("integerError", "a")
          /\ r.state = state

\* C6: pickResult of a resolvable type on a stream with no remaining
\* positional token returns the 'missing argument' error, runs no resolver
\* and leaves the cursor unchanged.
C6_PickMissing ==
    \A t \in TypeOptions :
        (resolveArgument(t) # Undefined /\ Remaining(state) = 0)
          => \A r \in {pickResult(Facade, t)} :
                /\ r.result.kind = "err"
                /\ r.result.identifier = "argsMissing"
                /\ r.calls = <<>>
                /\ r.state = state

\* a pickResult on a stream whose tokens were all consumed
C6_Witness ==
    /\ Len(ordered) > 0
    /\ Remaining(state) = 0
    /\ pickResult(Facade, IntegerType).result = missingArguments

\* C7: pickResult of a resolvable type on a stream with a remaining token
\* runs the resolver on exactly the first remaining token; when the
\* resolver accepts it the result is the resolver's value and exactly that
\* token is consumed, when the resolver returns an error the result is that
\* error, the cursor is unchanged and the next pickResult sees the same token.
C7_PickConsumesOnSuccessOnly ==
    \A t \in TypeOptions :
        (resolveArgument(t) # Undefined /\ Remaining(state) > 0)
          => \A r \in {pickResult(Facade, t)} :
             \A i \in {FirstRemaining(state)} :
             \A expected \in {run(resolveArgument(t), ordered[i + 1])} :
                 /\ r.calls = <<ordered[i + 1]>>
                 /\ expected.kind \in {"ok", "err"} => r.result = expected
                 /\ expected.kind = "ok"
                      => /\ r.state.used = state.used \cup {i}
                         /\ Remaining(r.state) = Remaining(state) - 1
                 /\ expected.kind = "err"
                      => /\ r.state = state
                         /\ NextPick(r, t) = <<expected, <<ordered[i + 1]>> >>

\* on the second token of the stream, a pickResult the resolver refuses and
\* one it accepts: the first leaves the token, the second consumes it
C7_Witness ==
    /\ state.position = 1
    /\ Remaining(state) = 1
    /\ \E r \in {pickResult(Facade, IntegerType)} :
          r.result.kind = "err" /\ Remaining(r.state) = 1
    /\ \E r \in {pickResult(Facade, StringType)} :
          r.result.kind = "ok" /\ Remaining(r.state) = 0

\* C8: pickResult, restResult and repeatResult return the 'unknown argument
\* type' error exactly when the type does not resolve, also on an exhausted
\* stream; they then run no resolver and leave the cursor and the
\* checkpoint stack unchanged.
C8_UnknownType ==
    \A t \in TypeOptions :
        \A r \in {pickResult(Facade, t), restResult(Facade, t)}
                   \cup {repeatResult(Facade, t, n) : n \in TimesOptions} :
            /\ (r.result.kind = "err" /\ r.result.identifier = "argsUnavailable")
                 <=> (resolveArgument(t) = Undefined)
            /\ resolveArgument(t) = Undefined
                 => /\ r.result.identifier \notin {"argsMissing", "integerError"}
                    /\ r.calls = <<>>
                    /\ r.state = state
                    /\ r.states = states

\* a restResult of an unregistered type on a stream already exhausted
C8_Witness ==
    /\ Len(ordered) > 0
    /\ Remaining(state) = 0
    /\ restResult(Facade, UnknownType).result = unavailableArgument(UnknownType)
    /\ restResult(Facade, StringType).result = missingArguments

\* C9: restore() with an empty checkpoint stack raises nothing and leaves
\* the cursor, `finished` and the empty stack unchanged.
C9_RestoreEmptyNoOp ==
    states = <<>>
      => \A r \in {restore(Facade)} :
            /\ r.result = Void
            /\ r.state = state
            /\ finished(r.state) = finished(state)
            /\ r.states = <<>>

\* nothing saved and a token consumed: a restore that went back to the
\* start of the stream would be seen
C9_Witness ==
    /\ states = <<>>
    /\ state.position > 0
    /\ restore(Facade).state # EmptyState

\* the consuming calls interleaved with the saves
InterleavedCalls == {f \in PeekFunctions : f.type.name \in RegisteredTypes /\ f.times = NoTimes}

\* C10: the checkpoint stack is last in, first out: save() pushes the
\* current cursor on top of the stack, the consuming operations leave the
\* stack as it is, and after two saves interleaved with consuming
\* operations the first restore() takes the cursor of the second save and
\* the second restore() that of the first, each leaving the stack as it was
\* before the matching save.
C10_CheckpointLifo ==
    \A c1 \in InterleavedCalls, c2 \in InterleavedCalls :
        \A s1 \in {save(Facade)} :
        \A m1 \in {callFn(s1, c1)} :
        \A s2 \in {save(m1)} :
        \A m2 \in {callFn(s2, c2)} :
        \A r1 \in {restore(m2)} :
        \A r2 \in {restore(r1)} :
            /\ s1.state = state
            /\ s1.states = Append(states, state)
            /\ m1.states = s1.states
            /\ s2.states = Append(m1.states, m1.state)
            /\ m2.states = s2.states
            /\ r1.state = m1.state
            /\ r1.states = s1.states
            /\ r2.state = state
            /\ r2.states = states

\* two checkpoints saved at different positions, both behind the cursor:
\* the first restore goes back to the newer, the second to the older
C10_Witness ==
    /\ Len(states) = 2
    /\ states[1].position < states[2].position
    /\ states[2].position < state.position
    /\ restore(Facade).state = states[2]
    /\ restore(restore(Facade)).state = states[1]
    /\ restore(restore(Facade)).states = <<>>

\* C11: restResult and repeatResult of a resolvable type on an exhausted
\* stream return the 'missing argument' error, run no resolver and leave
\* the cursor and the checkpoint stack unchanged; a restResult that
\* succeeds has consumed every remaining token, so `finished` holds after it.
C11_ExhaustedRestRepeat ==
    \A t \in TypeOptions :
        /\ (resolveArgument(t) # Undefined /\ Remaining(state) = 0)
             => \A r \in {restResult(Facade, t)}
                         \cup {repeatResult(Facade, t, n) : n \in TimesOptions} :
                   /\ r.result = missingArguments
                   /\ r.calls = <<>>
                   /\ r.state = state
                   /\ r.states = states
        /\ \A r \in {restResult(Facade, t)} :
              r.result.kind = "ok"
                => /\ finished(r.state)
                   /\ Remaining(r.state) = 0
                   /\ Remaining(state) > 0

\* every token consumed: a repeatResult and a restResult are answered
\* 'missing argument'; and one token before that, a restResult succeeds and
\* finishes the stream
C11_Witness ==
    /\ Len(ordered) = 2
    /\ Remaining(state) = 0
    /\ repeatResult(Facade, StringType, NoTimes).result = missingArguments
    /\ restResult(Facade, IntegerType).result = missingArguments
    /\ Len(states) = 1
    /\ Remaining(states[1]) = 1
    /\ \E r \in {restResult(restore(Facade), StringType)} :
          r.result.kind = "ok" /\ finished(r.state)

\* C12: nextMaybe and next with no callback, or with a callback that
\* returns, give a value or an absent value (null for next), never an
\* error: absent when no token remains, with the callback not called, or
\* when the callback rejects the first remaining token; the first remaining
\* token, and only it, is consumed when a token is there and the callback,
\* if any, accepts it; otherwise the cursor is unchanged.  The checkpoint
\* stack is never touched.
C12_NextNeverFails ==
    \A cb \in CbOptions :
        \A m \in {nextMaybe(Facade, cb)} :
        \A v \in {next(Facade, cb)} :
            m.result.kind # "raised"
              => /\ m.result.kind \in {"some", "none"}
                 /\ v.result.kind = "returned"
                 /\ v.state = m.state
                 /\ m.states = states /\ v.states = states
                 /\ (m.result.kind = "none") <=> (v.result.value = NullValue)
                 /\ m.result.kind = "some" => v.result.value = m.result.value
                 /\ Remaining(state) = 0
                      => /\ m.result = None
                         /\ m.calls = <<>>
                         /\ m.state = state
                 /\ Remaining(state) > 0
                      => \A i \in {FirstRemaining(state)} :
                         \A accepted \in {cb = NoCb \/ callback(cb, ordered[i + 1]).kind = "some"} :
                            /\ cb # NoCb => m.calls = <<ordered[i + 1]>>
                            /\ accepted
                                 => /\ m.result.kind = "some"
                                    /\ cb = NoCb => m.result.value = StrValue(ordered[i + 1])
                                    /\ cb # NoCb => m.result = callback(cb, ordered[i + 1])
                                    /\ m.state.used = state.used \cup {i}
                                    /\ Remaining(m.state) = Remaining(state) - 1
                            /\ ~accepted
                                 => /\ m.result = None
                                    /\ m.state = state

\* on the second token of the stream, "a": a callback that rejects it gives
\* an absent value and leaves it, no callback gives the token and consumes
\* it, and after that nothing remains and the answer is absent again
C12_Witness ==
    /\ state.position = 1
    /\ Remaining(state) = 1
    /\ \E m \in {nextMaybe(Facade, "integer")} :
          m.result = None /\ m.calls = <<"a">> /\ Remaining(m.state) = 1
    /\ \E v \in {next(Facade, NoCb)} :
          /\ v.result = Returned(StrValue("a"))
          /\ Remaining(v.state) = 0
          /\ next(v, NoCb).result = Returned(NullValue)

\* every value given for the keys, key after key
ValuesOf(keys) ==
    IF Len(keys) = 1 THEN options[keys[1]] ELSE options[keys[1]] \o options[keys[2]]

SameAsResult(v, r) ==
    /\ v.state = r.state
    /\ v.states = r.states
    /\ v.calls = r.calls
    /\ (v.result.kind = "returned") <=> (r.result.kind = "ok")
    /\ r.result.kind = "ok"
         => /\ v.result.value = r.result.value
            /\ v.result.output = r.result.output
            /\ v.result.list = r.result.list
    /\ r.result.kind # "ok"
         => /\ v.result.kind = "raised"
            /\ v.result.identifier = r.result.identifier
            /\ v.result.parameter = r.result.parameter

\* C14: from every state, pick, rest, repeat and peek return the value of
\* the success their Result variant returns from that state and nothing
\* else, raise the error it returns (or raises) otherwise, and leave the
\* cursor and the checkpoint stack as the Result variant leaves them.
C14_ThrowingVariantsAgree ==
    /\ \A t \in TypeOptions :
          /\ SameAsResult(pick(Facade, t), pickResult(Facade, t))
          /\ SameAsResult(rest(Facade, t), restResult(Facade, t))
          /\ SameAsResult(peek(Facade, t, NoFn), peekResult(Facade, t, NoFn))
          /\ \A n \in TimesOptions :
                SameAsResult(repeat(Facade, t, n), repeatResult(Facade, t, n))
    /\ \A f \in PeekFunctions :
          SameAsResult(peek(Facade, NoType, f), peekResult(Facade, NoType, f))

\* on the second token of the stream, "a": pick of an integer raises the
\* resolver's error and consumes nothing, rest of a string returns the
\* text and finishes the stream, as pickResult and restResult do
C14_Witness ==
    /\ state.position = 1
    /\ Remaining(state) = 1
    /\ pickResult(Facade, IntegerType).result = Err("integerError", "a")
    /\ pick(Facade, IntegerType).result = Raised("integerError", "a")
    /\ pick(Facade, IntegerType).state = state
    /\ restResult(Facade, StringType).result = Ok(StrValue("a"))
    /\ rest(Facade, StringType).result = Returned(StrValue("a"))
    /\ finished(rest(Facade, StringType).state)

\* C15: two pickResult calls on one facade never overlap: no call has read
\* the cursor and handed a token to its resolver while the resolver of
\* another call, handed a token before, has not settled.
C15_ExtractionsSequential ==
    \A c \in TaskIds, d \in TaskIds :
        (c # d /\ tasks[c].pc = "await" /\ tasks[c].index # -1)
          => ~(tasks[d].pc = "await" /\ tasks[d].index # -1)

\* the result of RunIn's entry point for a transport on the request
RunInResult(entry) ==
    CASE entry = "messageRun" -> RunIn_messageRun(request, request.context)
      [] entry = "chatInputRun" -> RunIn_chatInputRun(request, request.context)
      [] entry = "contextMenuRun" -> RunIn_contextMenuRun(request, request.context)

\* C16: with no allow-list in the context (context.types absent), RunIn's
\* messageRun, chatInputRun and contextMenuRun return ok for a channel of
\* every kind.
C16_RunInPassThrough ==
    request.context.types = NoTypes
      => \A entry \in Transports : RunInResult(entry) = PreconditionOk

\* a chat input command without allow-list run in a public thread, a kind
\* that none of the lists explored allows: ok
C16_Witness ==
    /\ request.context.types = NoTypes
    /\ request.transport = "chatInputRun"
    /\ request.channel = "GuildPublicThread"
    /\ verdict = [precondition |-> "RunIn", entry |-> "chatInputRun", result |-> PreconditionOk]

\* C17: with an allow-list in the context, each entry point of RunIn
\* returns ok iff the kind of the invocation's channel is in the list that
\* applies: the one list when an array is given, and then the three entry
\* points return the same, or the list under the entry point's own name
\* when a record is given; otherwise it returns the preconditionRunIn
\* error with the configured types as context.
C17_RunInMembership ==
    \A types \in {request.context.types} :
        types # NoTypes
          => \A entry \in Transports :
             \A applicable \in {IF types.shape = "array" THEN types.shared ELSE types[entry]} :
             \A result \in {RunInResult(entry)} :
                /\ (result = PreconditionOk) <=> (request.channel \in applicable)
                /\ request.channel \notin applicable
                     => result = PreconditionError("preconditionRunIn", types)
                /\ types.shape = "array" => result = RunInResult("messageRun")

\* a chat input command in a text channel, with a record that allows text
\* channels for messages and only direct messages for chat input: refused,
\* with the record in the error
C17_Witness ==
    /\ request.transport = "chatInputRun"
    /\ request.channel = "GuildText"
    /\ request.context.types = RecordTypes({"GuildText"}, {"DM"}, {"GuildText", "GuildNews"})
    /\ verdict.precondition = "RunIn"
    /\ verdict.entry = "chatInputRun"
    /\ verdict.result = PreconditionError("preconditionRunIn", request.context.types)
    /\ RunInResult("messageRun") = PreconditionOk

\* C18: each entry point of GuildNewsThreadOnly and of GuildNewsOnly
\* returns ok iff the kind of the channel the invocation occurred in is in
\* the check's list (announcement threads; announcement channels and
\* announcement threads), and the check's error otherwise.
C18_FixedKindAgree ==
    /\ \A result \in {GuildNewsThreadOnly_messageRun(request),
                      GuildNewsThreadOnly_chatInputRun(request),
                      GuildNewsThreadOnly_contextMenuRun(request)} :
          /\ (result = PreconditionOk) <=> (request.channel = "GuildNewsThread")
          /\ result # PreconditionOk
               => result = PreconditionError("preconditionGuildNewsThreadOnly", NoTypes)
    /\ \A result \in {GuildNewsOnly_messageRun(request),
                      GuildNewsOnly_chatInputRun(request),
                      GuildNewsOnly_contextMenuRun(request)} :
          /\ (result = PreconditionOk) <=> (request.channel \in {"GuildNews", "GuildNewsThread"})
          /\ result # PreconditionOk
               => result = PreconditionError("preconditionGuildNewsOnly", NoTypes)

\* the store's filter accepts the interaction for the handler and its parse
\* returns a Some
Claims(i) ==
    /\ filterAccepts(handlers[i], dispatch.interaction)
    /\ parsedSome(handlers[i])

\* the run of the handler was called: its promise was pushed, or it threw
\* when called
RunInvoked(i) == \E c \in DOMAIN dispatch.calls : dispatch.calls[c].handler = i

\* the run of the handler was called and what it returned has settled
RunSettled(i) ==
    \E p \in DOMAIN dispatch.promises :
        dispatch.promises[p].handler = i /\ dispatch.promises[p].status # "pending"

\* the parse of the handler was called and threw, or the promise it
\* returned rejected
ParseFailed(i) ==
    /\ filterAccepts(handlers[i], dispatch.interaction)
    /\ handlers[i].parse \in {"throws", "rejects"}
    /\ i < dispatch.index

\* C19: in a run of the store in which the parse of a handler threw or
\* rejected, that handler's run is never called, no exception escapes the
\* run of the store, and when it has returned every other handler whose
\* parse claims the interaction has had its run called.
C19_ParseFailureSkipsHandler ==
    \A i \in DOMAIN handlers :
        ParseFailed(i)
          => /\ ~RunInvoked(i)
             /\ dispatch.pc # "rejected"
             /\ dispatch.pc = "returned"
                  => \A j \in DOMAIN handlers : Claims(j) => RunInvoked(j)

\* C20: in a run of the store in which the run of a handler was called and
\* failed, by throwing when called or through a promise that rejects, no
\* exception escapes the run of the store, and when it has returned every
\* handler whose parse claims the interaction has had its run called and
\* settled.
C20_RunFailureIsolated ==
    \A i \in DOMAIN handlers :
        (RunInvoked(i) /\ handlers[i].run \in {"throws", "rejects"})
          => /\ dispatch.pc # "rejected"
             /\ dispatch.pc = "returned"
                  => \A j \in DOMAIN handlers : Claims(j) => RunSettled(j)

\* the promise the store's run returned to its caller has settled: the
\* caller's await goes on
Completed == dispatch.pc \in {"returned", "rejected"}

\* C21: the store's run is back at its caller only when every promise
\* pushed has settled, and when every promise pushed settles the run is
\* eventually back at its caller.
C21_ReturnsAfterAllSettled ==
    /\ [](Completed
            => \A p \in DOMAIN dispatch.promises : dispatch.promises[p].status # "pending")
    /\ <>Completed

\* C22: a handler that does not override parse claims every interaction
\* the filter of its type accepts: its parse returns a Some without data,
\* and when the store's run is back at its caller the handler's run has
\* been called for the interaction, without data.
C22_DefaultParseClaims ==
    \A i \in DOMAIN handlers :
        (handlers[i].parse = "default" /\ filterAccepts(handlers[i], dispatch.interaction))
          => /\ parse(handlers[i], dispatch.interaction) = some(Undefined)
             /\ Completed => \E c \in DOMAIN dispatch.calls :
                                dispatch.calls[c] = [handler |-> i, parsedData |-> Undefined]

\* C23, as the code has it: a handler's run is called as soon as its own
\* parse has returned a Some, before the parse of any later handler is
\* called, so while the loop is at a handler every earlier handler that
\* claims has had its run called and no later handler has; only the await
\* of the promises starts after the loop has passed every handler.
C23_RunCalledInLoop ==
    /\ \A j \in DOMAIN handlers :
          /\ (j < dispatch.index /\ Claims(j)) => RunInvoked(j)
          /\ RunInvoked(j) => j <= dispatch.index
    /\ dispatch.pc = "allSettled" => dispatch.index > Len(handlers)

\* the parse of the second handler is awaited and the run of the first has
\* been called
C23_Witness ==
    /\ dispatch.pc = "parse"
    /\ dispatch.index = 2
    /\ RunInvoked(1)
    /\ handlers[2].parse = "some"

\* C23 as stated: no handler's run is called before the loop has passed
\* the filter and parse of every handler of the store.
C23_RunAfterAllClaims ==
    \A j \in DOMAIN handlers : RunInvoked(j) => dispatch.index > Len(handlers)

\* the parse of the handler was called
ParseInvoked(i) == \E c \in DOMAIN dispatch.parsed : dispatch.parsed[c] = i

\* C24: a handler's parse is called iff its type has a filter in the table
\* and that filter accepts the interaction: the parse of another handler is
\* never called, nor is its run, and skipping it raises nothing; and when
\* the store's run is back at its caller the parse of every handler whose
\* filter accepts has been called.
C24_ParseIffFilterAccepts ==
    \A i \in DOMAIN handlers :
        /\ ParseInvoked(i) => filterAccepts(handlers[i], dispatch.interaction)
        /\ ~filterAccepts(handlers[i], dispatch.interaction)
             => /\ ~RunInvoked(i)
                /\ ~(dispatch.pc = "rejected" /\ dispatch.index = i)
        /\ (Completed /\ filterAccepts(handlers[i], dispatch.interaction)) => ParseInvoked(i)

\* the parse of the handler was called and the await of what it returned
\* is over
ParseReturned(i) == ParseInvoked(i) /\ ~(dispatch.pc = "parse" /\ dispatch.index = i)

\* C25: a handler's run is called at most once in a run of the store; it
\* has been called iff the handler's parse was called and returned a Some,
\* without throwing or rejecting; and the data passed to it is the value of
\* the Some that handler's own parse returned for the interaction.
C25_RunOncePerClaim ==
    \A i \in DOMAIN handlers :
        /\ Cardinality({c \in DOMAIN dispatch.calls : dispatch.calls[c].handler = i}) <= 1
        /\ RunInvoked(i)
             <=> (ParseReturned(i) /\ isSome(parse(handlers[i], dispatch.interaction)))
        /\ \A c \in DOMAIN dispatch.calls :
              dispatch.calls[c].handler = i
                => dispatch.calls[c].parsedData = parse(handlers[i], dispatch.interaction).value

\* two handlers have claimed a button press with different data and each
\* run was called with its own
C25_Witness ==
    /\ Len(dispatch.calls) = 2
    /\ dispatch.calls[1] = [handler |-> 1, parsedData |-> "x"]
    /\ dispatch.calls[2] = [handler |-> 2, parsedData |-> "y"]
    /\ dispatch.pc = "returned"

\* the index of the m-th positional token not yet consumed, m from 1
RemainingIndex(st, m) ==
    CHOOSE i \in 0..(Len(ordered) - 1) :
        i \notin st.used /\ Cardinality({j \in 0..(i - 1) : j \notin st.used}) = m - 1

\* C26: a repeatResult that succeeds with k values has consumed the next k
\* positional tokens and no other, and its values are those the resolver
\* gave for these tokens, in stream order; the token on which the resolver
\* failed, when that stopped the loop, is not consumed and is what the
\* next pickResult hands to its resolver; with no `times` and the 'string'
\* type, k is the number of tokens that remained, the values are these
\* tokens in order and the stream is finished.
C26_RepeatConsumesInOrder ==
    \A t \in TypeOptions, n \in TimesOptions :
        \A r \in {repeatResult(Facade, t, n)} :
            r.result.kind = "ok"
              => \A k \in {Len(r.result.output)} :
                    /\ k <= Remaining(state)
                    /\ r.state.used = state.used \cup {RemainingIndex(state, m) : m \in 1..k}
                    /\ r.result.output
                         = [m \in 1..k |->
                              run(resolveArgument(t), ordered[RemainingIndex(state, m) + 1]).value]
                    /\ Len(r.calls) = k + 1
                         => /\ r.calls[k + 1] = ordered[RemainingIndex(state, k + 1) + 1]
                            /\ pickResult(r, StringType).calls = <<r.calls[k + 1]>>
                    /\ (t = StringType /\ n = NoTimes)
                         => /\ k = Remaining(state)
                            /\ r.result.output
                                 = [m \in 1..k |-> StrValue(ordered[RemainingIndex(state, m) + 1])]
                            /\ finished(r.state)

\* on "5 a", an unbounded repeat of strings returns both tokens in order and
\* finishes the stream, and an unbounded repeat of integers returns the
\* first and leaves "a" to the next pickResult
C26_Witness ==
    /\ ordered = <<"5", "a">>
    /\ Remaining(state) = 2
    /\ \E r \in {repeatResult(Facade, StringType, NoTimes)} :
          /\ r.result = OkList(<<StrValue("5"), StrValue("a")>>)
          /\ finished(r.state)
    /\ \E r \in {repeatResult(Facade, IntegerType, NoTimes)} :
          /\ r.result = OkList(<<IntValue(5)>>)
          /\ r.calls = <<"5", "a">>
          /\ pickResult(r, StringType).result = Ok(StrValue("a"))

\* a `times` below zero
NegativeTimes == -2

\* C27: on a stream that is not finished and with a type that resolves,
\* repeatResult with `times` below 1 does not call the resolver, consumes
\* no token and returns a success with the empty list; with `times` of 1
\* or more, or none, every success carries at least one value.
C27_RepeatZeroTimes ==
    \A t \in TypeOptions, n \in TimesOptions \cup {NegativeTimes} :
        \A r \in {repeatResult(Facade, t, n)} :
            (~finished(state) /\ resolveArgument(t) # Undefined)
              => /\ (n # NoTimes /\ n < 1)
                      => /\ r.calls = <<>>
                         /\ r.state = state
                         /\ r.result = OkList(<<>>)
                 /\ ((n = NoTimes \/ n >= 1) /\ r.result.kind = "ok")
                      => Len(r.result.output) >= 1

\* with "a" still to be consumed, a repeat of integers zero times succeeds
\* with nothing, where a repeat of one integer is refused
C27_Witness ==
    /\ Remaining(state) = 1
    /\ ordered[FirstRemaining(state) + 1] = "a"
    /\ \E r \in {repeatResult(Facade, IntegerType, 0)} :
          /\ r.result = OkList(<<>>)
          /\ r.calls = <<>>
          /\ Remaining(r.state) = 1
    /\ repeatResult(Facade, IntegerType, 1).result = Err("integerError", "a")

\* C28: after a peekResult, with the default pick-style extraction or with
\* a caller-supplied function, whether it returned a success, returned an
\* error or raised what the extraction raised, the checkpoint stack is the
\* one before the call.
C28_PeekBalancesStack ==
    \A r \in {peekResult(Facade, t, NoFn) : t \in TypeOptions}
               \cup {peekResult(Facade, NoType, f) : f \in PeekFunctions} :
        r.states = states

\* C29: pickResult, restResult, repeatResult, nextMaybe, next and the flag
\* and option lookups leave the checkpoint stack as it is, whatever they
\* return or raise; and a restore() after a restResult that failed takes
\* the caller's latest save(): the cursor goes to that checkpoint and the
\* stack loses it.
C29_ExtractionsLeaveStack ==
    /\ \A t \in TypeOptions :
          /\ pickResult(Facade, t).states = states
          /\ restResult(Facade, t).states = states
          /\ \A n \in TimesOptions : repeatResult(Facade, t, n).states = states
    /\ \A cb \in CbOptions :
          /\ nextMaybe(Facade, cb).states = states
          /\ next(Facade, cb).states = states
    /\ \A keys \in FlagKeys : getFlags(Facade, keys).states = states
    /\ \A keys \in OptionKeys :
          /\ getOptionResult(Facade, keys).states = states
          /\ getOption(Facade, keys).states = states
          /\ getOptionsResult(Facade, keys).states = states
          /\ getOptions(Facade, keys).states = states
    /\ states # <<>>
         => \A t \in TypeOptions :
            \A r \in {restResult(Facade, t)} :
                r.result.kind = "err"
                  => \A back \in {restore(r)} :
                        /\ back.state = states[Len(states)]
                        /\ back.states = SubSeq(states, 1, Len(states) - 1)

\* a checkpoint saved at the start, "5" consumed since, and a restResult of
\* an integer refused on "a": the restore that follows goes back to the
\* start, not to where restResult began
C29_Witness ==
    /\ ordered = <<"5", "a">>
    /\ states = <<EmptyState>>
    /\ state.position = 1
    /\ \E r \in {restResult(Facade, IntegerType)} :
          /\ r.result = Err("integerError", "a")
          /\ r.state = state
          /\ restore(r).state = EmptyState
          /\ restore(r).states = <<>>

\* C30: start() puts the cursor on the first token whatever was consumed,
\* so the next pickResult hands the first positional token to its
\* resolver, and it leaves the checkpoint stack as it is: a restore()
\* after it takes the cursor saved last before the start().
C30_StartKeepsCheckpoints ==
    \A r \in {start(Facade)} :
        /\ r.state = EmptyState
        /\ r.states = states
        /\ Len(ordered) > 0 => pickResult(r, StringType).calls = <<ordered[1]>>
        /\ states # <<>>
             => \A back \in {restore(r)} :
                   /\ back.state = states[Len(states)]
                   /\ back.states = SubSeq(states, 1, Len(states) - 1)

\* both tokens consumed and a checkpoint saved after the first: start()
\* makes "5" the next token again and the restore after it goes back to
\* the checkpoint, where "a" is next
C30_Witness ==
    /\ ordered = <<"5", "a">>
    /\ finished(state)
    /\ Len(states) = 1
    /\ states[1].position = 1
    /\ pickResult(start(Facade), StringType).result = Ok(StrValue("5"))
    /\ restore(start(Facade)).state = states[1]
    /\ pickResult(restore(start(Facade)), StringType).result = Ok(StrValue("a"))

\* the result of RunIn's entry point for a transport on the request, with
\* the given types in the context
RunInWith(entry, types) ==
    CASE entry = "messageRun" -> RunIn_messageRun(request, [types |-> types])
      [] entry = "chatInputRun" -> RunIn_chatInputRun(request, [types |-> types])
      [] entry = "contextMenuRun" -> RunIn_contextMenuRun(request, [types |-> types])

\* C31: RunIn tells an empty allow-list from an absent one: on the same
\* invocation, in a channel of every kind and on each entry point, it
\* returns the preconditionRunIn error when the context holds an empty
\* array or a record whose list for the entry point is empty, and ok when
\* the context holds no types.
C31_EmptyIsNotAbsent ==
    \A entry \in Transports :
        /\ RunInWith(entry, NoTypes) = PreconditionOk
        /\ RunInWith(entry, ArrayTypes({})) = PreconditionError("preconditionRunIn", ArrayTypes({}))
        /\ \A types \in TypesOptions :
              (types.shape = "record" /\ types[entry] = {})
                => RunInWith(entry, types) = PreconditionError("preconditionRunIn", types)

\* a context menu command in a direct message channel, with a record whose
\* list for context menus is empty and whose other lists allow direct
\* messages: refused, where the same invocation without types is accepted
C31_Witness ==
    /\ request.transport = "contextMenuRun"
    /\ request.channel = "DM"
    /\ request.context.types = RecordTypes({"DM"}, {"DM"}, {})
    /\ verdict = [precondition |-> "RunIn", entry |-> "contextMenuRun",
                  result |-> PreconditionError("preconditionRunIn", request.context.types)]
    /\ RunInWith("contextMenuRun", NoTypes) = PreconditionOk

\* C32: on every autocomplete interaction the listener either handles the
\* command or calls the interaction handlers, never both. When the command
\* found under the interaction's commandId, or else under its commandName,
\* has an autocompleteRun, that is called once and the store's run is not;
\* when the listener has returned, one event has been emitted for the
\* command, the success event if the autocompleteRun resolved and the error
\* event if it threw or rejected, and nothing was raised to the caller.
\* Otherwise no autocompleteRun is called, no event is emitted and the
\* store's run is called with the interaction exactly once.
C32_CommandOrHandlers ==
    \A command \in {IF commands.byId # NoCommand THEN commands.byId ELSE commands.byName} :
        /\ ~(listener.calls # <<>> /\ listener.dispatched # <<>>)
        /\ listener.pc \in {"idle", "autocompleteRun", "handlers", "returned"}
        /\ (command # NoCommand /\ command.autocompleteRun # "undefined")
             => /\ listener.dispatched = <<>>
                /\ listener.pc # "idle" => listener.calls = <<command>>
                /\ listener.pc = "autocompleteRun" => listener.emitted = <<>>
                /\ listener.pc = "returned"
                     => listener.emitted
                          = <<[event |-> IF command.autocompleteRun = "resolves"
                                           THEN "CommandAutocompleteInteractionSuccess"
                                           ELSE "CommandAutocompleteInteractionError",
                               command |-> command]>>
        /\ ~(command # NoCommand /\ command.autocompleteRun # "undefined")
             => /\ listener.calls = <<>>
                /\ listener.emitted = <<>>
                /\ listener.pc # "idle" => listener.dispatched = <<AutocompleteInteraction>>

\* the command under the id has an autocompleteRun that threw and the one
\* under the name one that would resolve: the listener has returned, the
\* error event was emitted for the command under the id, no handler called
C32_Witness ==
    /\ listener.pc = "returned"
    /\ commands.byId = [name |-> "ping", autocompleteRun |-> "throws"]
    /\ commands.byName = [name |-> "pong", autocompleteRun |-> "resolves"]
    /\ listener.calls = <<commands.byId>>
    /\ listener.emitted = <<Emitted("CommandAutocompleteInteractionError", commands.byId)>>
    /\ listener.dispatched = <<>>

====
